---- MODULE Spec2Model ----
(***************************************************************************)
(* Model of prongbang/gcd-labs.                                            *)
(*                                                                         *)
(*   - the compute service: server.Computer, the Euclidean loop            *)
(*       a, b := r.A, r.B ; for b != 0 { a, b = b, a%b } ; return a, nil   *)
(*     run by any number of concurrent invocations, one loop step at a     *)
(*     time;                                                               *)
(*   - the gateway: the GET /gcd/:a/:b handler of api/main.go, which       *)
(*     parses the two path parameters with strconv.ParseUint, calls the    *)
(*     compute service over RPC and writes one JSON response.              *)
(*                                                                         *)
(* The specifications share the actions:                                   *)
(*   Spec / FairSpec   one invocation of Computer, inputs 0..MaxVal        *)
(*   ConcSpec          NProcs interleaved invocations, inputs 0..ConcMaxVal*)
(*   GatewaySpec       one HTTP request through the handler and the RPC    *)
(***************************************************************************)
EXTENDS Integers, Sequences, FiniteSets, TLC

\* ------------------------------------------------------------------ bounds

\* Largest operand of a direct call in Spec.
MaxVal == 20

\* Number of concurrent invocations, and their largest operand, in ConcSpec.
NProcs == 2

ConcMaxVal == 3

\* Width in bits of the unsigned integer type in the gateway model (the code's
\* uint64, scaled down so that out-of-range parameters are short strings).
BitSize == 4

\* Longest path parameter, in characters.
MaxLen == 2

\* ------------------------------------------------------- program constants

\* strconv.ParseUint(_, 10, 64): the base.
Base == 10

StatusOK == 200

StatusBadRequest == 400

StatusInternalServerError == 500

\* -------------------------------------------------------------- the state

VARIABLES
    \* compute service, one entry per invocation of Computer
    pc,      \* "idle" | "loop" (at the for condition) | "body" | "done" | "panic"
    reqA,    \* r.A
    reqB,    \* r.B
    a,       \* local a
    b,       \* local b
    res,     \* GCDResponse.Result
    err,     \* the returned error: "unset" until the return, then "nil"
    steps,   \* number of loop bodies executed (history)
    \* gateway, one request
    hpc,     \* "off" | "start" | "calling" | "waiting" | "finished"
    paramA,  \* c.Param("a"), a sequence of characters
    paramB,  \* c.Param("b")
    rpcReq,  \* the GCDRequest handed to gcdClient.Computer
    rpcs,    \* number of gcdClient.Computer calls made by the handler
    rpcErr,  \* the error gcdClient.Computer returned: "unset", "nil" or its text
    invoked, \* number of times the compute service was entered for the request
    resp     \* the JSON responses written with c.JSON, in order

svars == <<pc, reqA, reqB, a, b, res, err, steps>>

gvars == <<hpc, paramA, paramB, rpcReq, rpcs, rpcErr, invoked, resp>>

vars == <<pc, reqA, reqB, a, b, res, err, steps,
          hpc, paramA, paramB, rpcReq, rpcs, rpcErr, invoked, resp>>

Procs == 1..NProcs

Max(x, y) == IF x >= y THEN x ELSE y

\* ------------------------------------------------- server.Computer, pieces

\* Mutant: `for b >= 0`, always true of an unsigned b.
LoopCondAlways(bv) == bv >= 0

\* Mutant: the loop stops one step early, at b <= 1.
LoopCondEarly(bv) == bv > 1

\* for b != 0
LoopCond(bv) == bv # 0

\* Mutant: `b = a % b` alone, a is never replaced.
NextAKeep(av, bv) == av

\* a, b = b, a%b : the new a
NextA(av, bv) == bv

\* Mutant: a plain swap, `a, b = b, a`.
NextBSwap(av, bv) == av

\* Mutant: the quotient instead of the remainder, `a, b = b, a/b`.
NextBQuot(av, bv) == av \div bv

\* a, b = b, a%b : the new b (bv # 0 where it is used)
NextB(av, bv) == av % bv

\* Mutant: `Result: b`.
ResultOfB(av, bv) == bv

\* return &proto.GCDResponse{Result: a}, nil
ResultOf(av, bv) == av

\* Computer as a function of its inputs: the loop run to its end.
RECURSIVE Loop(_, _)
Loop(av, bv) == IF LoopCond(bv) THEN Loop(NextA(av, bv), NextB(av, bv))
                ELSE ResultOf(av, bv)

Computer(A, B) == Loop(A, B)

\* ------------------------------------------------ server.Computer, actions

\* An invocation starts: a, b := r.A, r.B
Call(i, A, B) ==
    /\ pc[i] = "idle"
    /\ pc' = [pc EXCEPT ![i] = "loop"]
    /\ reqA' = [reqA EXCEPT ![i] = A]
    /\ reqB' = [reqB EXCEPT ![i] = B]
    /\ a' = [a EXCEPT ![i] = A]
    /\ b' = [b EXCEPT ![i] = B]
    /\ steps' = [steps EXCEPT ![i] = 0]
    /\ UNCHANGED <<res, err>>

\* The loop condition holds: enter the body.
Test(i) ==
    /\ pc[i] = "loop"
    /\ LoopCond(b[i])
    /\ pc' = [pc EXCEPT ![i] = "body"]
    /\ UNCHANGED <<reqA, reqB, a, b, res, err, steps>>

\* Mutant: a and b are shared by all invocations (fields of the server, not
\* locals), so a step of one invocation overwrites the others' values.
BodyShared(i) ==
    /\ pc[i] = "body"
    /\ IF b[i] = 0
       THEN /\ pc' = [pc EXCEPT ![i] = "panic"]
            /\ UNCHANGED <<a, b, steps>>
       ELSE /\ a' = [j \in Procs |-> NextA(a[i], b[i])]
            /\ b' = [j \in Procs |-> NextB(a[i], b[i])]
            /\ steps' = [steps EXCEPT ![i] = @ + 1]
            /\ pc' = [pc EXCEPT ![i] = "loop"]
    /\ UNCHANGED <<reqA, reqB, res, err>>

\* The loop body: a, b = b, a%b. A remainder by zero is a run-time panic.
Body(i) ==
    /\ pc[i] = "body"
    /\ IF b[i] = 0
       THEN /\ pc' = [pc EXCEPT ![i] = "panic"]
            /\ UNCHANGED <<a, b, steps>>
       ELSE /\ a' = [a EXCEPT ![i] = NextA(a[i], b[i])]
            /\ b' = [b EXCEPT ![i] = NextB(a[i], b[i])]
            /\ steps' = [steps EXCEPT ![i] = @ + 1]
            /\ pc' = [pc EXCEPT ![i] = "loop"]
    /\ UNCHANGED <<reqA, reqB, res, err>>

\* The loop condition fails: return the response and a nil error.
Return(i) ==
    /\ pc[i] = "loop"
    /\ ~LoopCond(b[i])
    /\ res' = [res EXCEPT ![i] = ResultOf(a[i], b[i])]
    /\ err' = [err EXCEPT ![i] = "nil"]
    /\ pc' = [pc EXCEPT ![i] = "done"]
    /\ UNCHANGED <<reqA, reqB, a, b, steps>>

\* ------------------------------------------------------- specifications

ServerInit ==
    /\ pc = [i \in Procs |-> "idle"]
    /\ reqA = [i \in Procs |-> 0]
    /\ reqB = [i \in Procs |-> 0]
    /\ a = [i \in Procs |-> 0]
    /\ b = [i \in Procs |-> 0]
    /\ res = [i \in Procs |-> 0]
    /\ err = [i \in Procs |-> "unset"]
    /\ steps = [i \in Procs |-> 0]

GatewayOff ==
    /\ hpc = "off"
    /\ paramA = <<>>
    /\ paramB = <<>>
    /\ rpcReq = [A |-> 0, B |-> 0]
    /\ rpcs = 0
    /\ rpcErr = "unset"
    /\ invoked = 0
    /\ resp = <<>>

Init == ServerInit /\ GatewayOff

\* One invocation of Computer, called directly with any operands 0..MaxVal.
Next ==
    \/ (\E A, B \in 0..MaxVal : Call(1, A, B)) /\ UNCHANGED gvars
    \/ Test(1) /\ UNCHANGED gvars
    \/ Body(1) /\ UNCHANGED gvars
    \/ Return(1) /\ UNCHANGED gvars

Spec == Init /\ [][Next]_vars

\* A step of a started invocation.
Step(i) == (Test(i) \/ Body(i) \/ Return(i)) /\ UNCHANGED gvars

\* A started invocation runs on its own goroutine, which the scheduler keeps
\* running; nothing obliges a caller to call.
FairSpec == Spec /\ WF_vars(Step(1))

\* NProcs invocations, their loop steps interleaved in any order.
ConcNext ==
    \E i \in Procs :
        \/ (\E A, B \in 0..ConcMaxVal : Call(i, A, B)) /\ UNCHANGED gvars
        \/ Test(i) /\ UNCHANGED gvars
        \/ Body(i) /\ UNCHANGED gvars
        \/ Return(i) /\ UNCHANGED gvars

ConcSpec == Init /\ [][ConcNext]_vars

\* ------------------------------------------------- the gateway, functions

\* The largest value of the unsigned type, and ParseUint's cutoff: the
\* smallest n such that n * Base overflows.
MaxUint == 2 ^ BitSize - 1

Cutoff == MaxUint \div Base + 1

\* Characters a path parameter is made of in the model.
Alphabet == {"0", "1", "2", "5", "-", "x"}

Strings == UNION {[1..m -> Alphabet] : m \in 0..MaxLen}

DecimalDigits == <<"0", "1", "2", "3", "4", "5", "6", "7", "8", "9">>

\* ParseUint's digit of a byte: '0'..'9' are 0..9, a letter is 10 or more,
\* anything else (a sign, a space) is no digit, -1 here.
DigitOf(c) ==
    IF \E d \in 1..Len(DecimalDigits) : DecimalDigits[d] = c
    THEN (CHOOSE d \in 1..Len(DecimalDigits) : DecimalDigits[d] = c) - 1
    ELSE IF c = "a" THEN 10
    ELSE IF c = "x" THEN 33
    ELSE -1

\* strconv.ParseUint(s, 10, 64) from character k on, n accumulated so far.
RECURSIVE ParseFrom(_, _, _)
ParseFrom(s, k, n) ==
    IF k > Len(s)
    THEN [val |-> n, err |-> "nil"]
    ELSE LET d == DigitOf(s[k]) IN
         IF d = -1 \/ d >= Base
         THEN [val |-> 0, err |-> "syntax"]
         ELSE IF n >= Cutoff
         THEN [val |-> MaxUint, err |-> "range"]
         ELSE LET m  == n * Base
                  n1 == (m + d) % (MaxUint + 1)
              IN  IF n1 < m \/ n1 > MaxUint
                  THEN [val |-> MaxUint, err |-> "range"]
                  ELSE ParseFrom(s, k + 1, n1)

ParseUint(s) ==
    IF s = <<>> THEN [val |-> 0, err |-> "syntax"] ELSE ParseFrom(s, 1, 0)

\* fmt.Sprint of an unsigned integer: its decimal digits.
RECURSIVE FormatUint(_)
FormatUint(n) ==
    IF n < Base
    THEN <<DecimalDigits[n + 1]>>
    ELSE Append(FormatUint(n \div Base), DecimalDigits[(n % Base) + 1])

\* c.JSON(http.StatusBadRequest, gin.H{"error": msg})
BadRequest(msg) == [status |-> StatusBadRequest, error |-> msg]

\* Mutant: the RPC failure is reported as a client error.
RpcFailureAsBadRequest(e) == [status |-> StatusBadRequest, error |-> e]

\* c.JSON(http.StatusInternalServerError, gin.H{"error": err.Error()})
RpcFailureResponse(e) == [status |-> StatusInternalServerError, error |-> e]

\* c.JSON(http.StatusOK, gin.H{"result": fmt.Sprint(res.Result)})
OkResponse(r) == [status |-> StatusOK, result |-> FormatUint(r)]

\* --------------------------------------------------- the gateway, actions

\* Mutant: b's parse error is dropped (`b, _ := strconv.ParseUint(...)`).
HandlerIgnoresB ==
    /\ hpc = "start"
    /\ LET pa == ParseUint(paramA)
           pb == ParseUint(paramB)
       IN  IF pa.err # "nil"
           THEN /\ resp' = Append(resp, BadRequest("Invalid parameter A"))
                /\ hpc' = "finished"
                /\ UNCHANGED <<rpcReq, rpcs>>
           ELSE /\ rpcReq' = [A |-> pa.val, B |-> pb.val]
                /\ rpcs' = rpcs + 1
                /\ hpc' = "calling"
                /\ UNCHANGED resp
    /\ UNCHANGED <<paramA, paramB, rpcErr, invoked>>

\* Mutant: the `return` after the response for an invalid a is missing.
HandlerNoReturn ==
    /\ hpc = "start"
    /\ LET pa == ParseUint(paramA)
           pb == ParseUint(paramB)
           r1 == IF pa.err # "nil"
                 THEN Append(resp, BadRequest("Invalid parameter A"))
                 ELSE resp
       IN  IF pb.err # "nil"
           THEN /\ resp' = Append(r1, BadRequest("Invalid parameter B"))
                /\ hpc' = "finished"
                /\ UNCHANGED <<rpcReq, rpcs>>
           ELSE /\ rpcReq' = [A |-> pa.val, B |-> pb.val]
                /\ rpcs' = rpcs + 1
                /\ hpc' = "calling"
                /\ resp' = r1
    /\ UNCHANGED <<paramA, paramB, rpcErr, invoked>>

\* The handler from its entry to the call of gcdClient.Computer: parse a,
\* parse b, answer 400 and return on the first that fails, else build the
\* request and call.
Handler ==
    /\ hpc = "start"
    /\ LET pa == ParseUint(paramA)
           pb == ParseUint(paramB)
       IN  IF pa.err # "nil"
           THEN /\ resp' = Append(resp, BadRequest("Invalid parameter A"))
                /\ hpc' = "finished"
                /\ UNCHANGED <<rpcReq, rpcs>>
           ELSE IF pb.err # "nil"
           THEN /\ resp' = Append(resp, BadRequest("Invalid parameter B"))
                /\ hpc' = "finished"
                /\ UNCHANGED <<rpcReq, rpcs>>
           ELSE /\ rpcReq' = [A |-> pa.val, B |-> pb.val]
                /\ rpcs' = rpcs + 1
                /\ hpc' = "calling"
                /\ UNCHANGED resp
    /\ UNCHANGED <<paramA, paramB, rpcErr, invoked>>

\* The request reaches the compute service, which starts Computer on it.
Deliver ==
    /\ hpc = "calling"
    /\ Call(1, rpcReq.A, rpcReq.B)
    /\ invoked' = invoked + 1
    /\ hpc' = "waiting"
    /\ UNCHANGED <<paramA, paramB, rpcReq, rpcs, rpcErr, resp>>

\* The RPC fails (the service is unreachable, the connection drops): the
\* else branch of the handler.
RpcFail ==
    /\ hpc \in {"calling", "waiting"}
    /\ rpcErr' = "rpc error: code = Unavailable"
    /\ resp' = Append(resp, RpcFailureResponse(rpcErr'))
    /\ hpc' = "finished"
    /\ UNCHANGED <<paramA, paramB, rpcReq, rpcs, invoked>>

\* Computer's return reaches the handler: `if res, err := ...; err == nil`.
Reply ==
    /\ hpc = "waiting"
    /\ pc[1] = "done"
    /\ rpcErr' = err[1]
    /\ resp' = Append(resp, IF err[1] = "nil" THEN OkResponse(res[1])
                            ELSE RpcFailureResponse(err[1]))
    /\ hpc' = "finished"
    /\ UNCHANGED <<paramA, paramB, rpcReq, rpcs, invoked>>

\* A request GET /gcd/<paramA>/<paramB> has been routed to the handler.
GatewayInit ==
    /\ ServerInit
    /\ hpc = "start"
    /\ paramA \in Strings
    /\ paramB \in Strings
    /\ rpcReq = [A |-> 0, B |-> 0]
    /\ rpcs = 0
    /\ rpcErr = "unset"
    /\ invoked = 0
    /\ resp = <<>>

GatewayNext ==
    \/ Handler /\ UNCHANGED svars
    \/ Deliver
    \/ RpcFail /\ UNCHANGED svars
    \/ Reply /\ UNCHANGED svars
    \/ Test(1) /\ UNCHANGED gvars
    \/ Body(1) /\ UNCHANGED gvars
    \/ Return(1) /\ UNCHANGED gvars

GatewaySpec == GatewayInit /\ [][GatewayNext]_vars

\* ------------------------------------------------ claims on server.Computer

Divides(d, n) == d > 0 /\ n % d = 0

\* r is the greatest common divisor of x and y, with gcd(0, 0) = 0.
IsGCD(r, x, y) ==
    IF x = 0 /\ y = 0
    THEN r = 0
    ELSE /\ Divides(r, x)
         /\ Divides(r, y)
         /\ \A d \in (r + 1)..Max(x, y) : ~(Divides(d, x) /\ Divides(d, y))

\* C1: the Result of Computer(A, B) divides A and B, no larger integer divides
\* both, and it is 0 exactly when A = 0 and B = 0.
C1_ResultIsGCD ==
    pc[1] = "done" =>
        /\ IsGCD(res[1], reqA[1], reqB[1])
        /\ (res[1] = 0 <=> (reqA[1] = 0 /\ reqB[1] = 0))

\* A returned call whose result is a proper common divisor, found after
\* several loop steps.
C1_Witness ==
    /\ pc[1] = "done"
    /\ reqA[1] = 12 /\ reqB[1] = 18 /\ res[1] = 6
    /\ steps[1] >= 3

\* C2: Computer(A, B) returns what Computer(B, A) returns, also when A < B and
\* the first loop step only swaps the operands.
C2_Commutative ==
    /\ pc[1] = "done" => res[1] = Computer(reqB[1], reqA[1])
    /\ (pc[1] = "loop" /\ steps[1] = 1 /\ reqA[1] < reqB[1]) =>
           (a[1] = reqB[1] /\ b[1] = reqA[1])

\* A returned call with 0 < A < B and a result above 1.
C2_Witness ==
    /\ pc[1] = "done"
    /\ 0 < reqA[1] /\ reqA[1] < reqB[1]
    /\ res[1] > 1 /\ res[1] < reqA[1]

\* C3: Computer(A, 0) returns A without entering the loop body,
\* Computer(0, B) returns B, and Computer(0, 0) returns 0.
C3_ZeroOperands ==
    pc[1] = "done" =>
        /\ reqB[1] = 0 => (res[1] = reqA[1] /\ steps[1] = 0)
        /\ reqA[1] = 0 => res[1] = reqB[1]
        /\ (reqA[1] = 0 /\ reqB[1] = 0) => res[1] = 0

\* A returned call with exactly one zero operand, on the side that needs a
\* loop step.
C3_Witness ==
    /\ pc[1] = "done"
    /\ reqA[1] = 0 /\ reqB[1] = 5 /\ res[1] = 5 /\ steps[1] = 1

\* C4: the remainder is only ever taken by a non-zero b, no invocation
\* panics, and a returned call carries a nil error.
C4_NeverFails ==
    /\ pc[1] = "body" => b[1] # 0
    /\ pc[1] # "panic"
    /\ pc[1] = "done" => err[1] = "nil"
    /\ pc[1] # "done" => err[1] = "unset"

\* A call with a zero operand that has returned after executing the body.
C4_Witness ==
    /\ pc[1] = "done" /\ err[1] = "nil"
    /\ reqA[1] = 0 /\ reqB[1] > 0 /\ steps[1] > 0

\* C5: every call returns; b strictly decreases on every loop step, so a call
\* with operands (A, B) executes the body at most B times.
C5_Terminates ==
    /\ (pc[1] # "idle") ~> (pc[1] = "done")
    /\ [][(pc[1] = "body" /\ pc'[1] = "loop") => b'[1] < b[1]]_vars
    /\ [](steps[1] <= reqB[1])

\* A returned call that needed five loop steps (consecutive Fibonacci numbers).
C5_Witness ==
    /\ pc[1] = "done"
    /\ reqA[1] = 8 /\ reqB[1] = 13 /\ steps[1] >= 5

\* C10: a and b never exceed max(A, B), each new remainder is strictly less
\* than the b it was taken by, and the Result is at most max(A, B).
C10_Bounded ==
    /\ [](pc[1] # "idle" =>
            /\ a[1] <= Max(reqA[1], reqB[1])
            /\ b[1] <= Max(reqA[1], reqB[1])
            /\ a[1] >= 0 /\ b[1] >= 0)
    /\ [](pc[1] = "done" => res[1] <= Max(reqA[1], reqB[1]))
    /\ [][(pc[1] = "body" /\ pc'[1] = "loop") =>
            (b'[1] < b[1] /\ a'[1] = b[1])]_vars

\* A loop step that has just replaced (a, b) where a was the larger input.
C10_Witness ==
    /\ pc[1] = "loop" /\ steps[1] = 2
    /\ reqA[1] = MaxVal /\ reqB[1] = 7
    /\ b[1] > 0

\* C9: concurrent invocations do not interfere: a step of one invocation
\* leaves the others' a, b and Result alone, every Result is the one the same
\* inputs give when run alone, and equal inputs give equal Results.
C9_NoInterference ==
    /\ [](\A i \in Procs :
            pc[i] = "done" => res[i] = Computer(reqA[i], reqB[i]))
    /\ [](\A i, j \in Procs :
            (pc[i] = "done" /\ pc[j] = "done"
             /\ reqA[i] = reqA[j] /\ reqB[i] = reqB[j]) => res[i] = res[j])
    /\ [][\A j \in Procs :
            pc'[j] = pc[j] =>
                (a'[j] = a[j] /\ b'[j] = b[j] /\ res'[j] = res[j])]_vars

\* Two invocations with different inputs, one returned while the other is
\* still inside its loop.
C9_Witness ==
    \E i, j \in Procs :
        /\ i # j
        /\ pc[i] = "done" /\ pc[j] = "body"
        /\ reqA[i] = 2 /\ reqB[i] = 3 /\ res[i] = 1
        /\ reqA[j] = 3 /\ reqB[j] = 2 /\ steps[j] = 1

\* ------------------------------------------------------ claims on the gateway

\* The value of a string of decimal digits, as a number of any size.
RECURSIVE DecimalValue(_)
DecimalValue(s) ==
    IF s = <<>> THEN 0
    ELSE DecimalValue(SubSeq(s, 1, Len(s) - 1)) * 10
         + (CHOOSE d \in 0..9 : DecimalDigits[d + 1] = s[Len(s)])

\* s is an unsigned decimal integer of the type's range: not empty, digits
\* only (no sign, no letter), value at most MaxUint.
IsUintLiteral(s) ==
    /\ s # <<>>
    /\ \A k \in 1..Len(s) : \E d \in 0..9 : DecimalDigits[d + 1] = s[k]
    /\ DecimalValue(s) <= MaxUint

ParamsValid == IsUintLiteral(paramA) /\ IsUintLiteral(paramB)

RpcFailed == rpcErr \notin {"unset", "nil"}

\* C6: when a or b is not an unsigned decimal integer in range the handler
\* answers 400 and the compute service is never invoked; the compute service
\* only ever runs on the two successfully parsed values.
C6_InvalidRejected ==
    /\ ~ParamsValid =>
        /\ rpcs = 0 /\ invoked = 0 /\ pc[1] = "idle"
        /\ hpc \in {"start", "finished"}
        /\ hpc = "finished" =>
               (Len(resp) = 1 /\ resp[1].status = StatusBadRequest)
    /\ (rpcs > 0 \/ pc[1] # "idle") =>
        /\ ParamsValid
        /\ rpcReq = [A |-> DecimalValue(paramA), B |-> DecimalValue(paramB)]
    /\ pc[1] # "idle" =>
        (reqA[1] = DecimalValue(paramA) /\ reqB[1] = DecimalValue(paramB))

\* A finished request whose a is valid and whose b is out of range.
C6_Witness ==
    /\ hpc = "finished"
    /\ paramA = <<"1", "2">> /\ paramB = <<"5", "0">>
    /\ Len(resp) = 1 /\ resp[1].status = StatusBadRequest
    /\ invoked = 0

\* C7 as stated: a failed RPC is answered in the "service unavailable"
\* category (503).
C7_ServiceUnavailable ==
    (hpc = "finished" /\ RpcFailed) =>
        resp[Len(resp)].status = 503

\* C7 as amended: a failed RPC with two valid parameters is answered with
\* HTTP 500 Internal Server Error carrying the error's text, a server error
\* distinct from the 400 of invalid input.
C7_InternalServerError ==
    (hpc = "finished" /\ RpcFailed) =>
        /\ ParamsValid
        /\ Len(resp) = 1
        /\ resp[1] = [status |-> StatusInternalServerError, error |-> rpcErr]
        /\ resp[1].status >= 500 /\ resp[1].status < 600
        /\ resp[1].status # StatusBadRequest

\* A request with valid parameters whose RPC failed after the compute
\* service had started on it.
C7_Witness ==
    /\ hpc = "finished" /\ RpcFailed
    /\ paramA = <<"1", "2">> /\ paramB = <<"1", "0">>
    /\ invoked = 1 /\ pc[1] # "idle"
    /\ Len(resp) = 1

\* C8: a request gets exactly one JSON response when the handler finishes and
\* none before: 400 for an invalid a, 400 for an invalid b, 200 with the
\* decimal text of gcd(a, b) when the RPC succeeds, an error when it fails;
\* never a result together with an error, and at most one RPC.
C8_OneResponse ==
    /\ Len(resp) = (IF hpc = "finished" THEN 1 ELSE 0)
    /\ rpcs <= 1 /\ invoked <= rpcs
    /\ hpc # "finished" => ENABLED GatewayNext
    /\ \A k \in 1..Len(resp) :
           \/ DOMAIN resp[k] = {"status", "result"}
           \/ DOMAIN resp[k] = {"status", "error"}
    /\ hpc = "finished" =>
        IF ~IsUintLiteral(paramA)
        THEN resp[1] = BadRequest("Invalid parameter A") /\ rpcs = 0
        ELSE IF ~IsUintLiteral(paramB)
        THEN resp[1] = BadRequest("Invalid parameter B") /\ rpcs = 0
        ELSE IF RpcFailed
        THEN /\ DOMAIN resp[1] = {"status", "error"}
             /\ resp[1].status # StatusOK
             /\ rpcs = 1
        ELSE /\ rpcErr = "nil" /\ rpcs = 1 /\ invoked = 1
             /\ DOMAIN resp[1] = {"status", "result"}
             /\ resp[1].status = StatusOK
             /\ IsUintLiteral(resp[1].result)
             /\ IsGCD(DecimalValue(resp[1].result),
                      DecimalValue(paramA), DecimalValue(paramB))
             /\ DecimalValue(resp[1].result) = res[1]
             /\ (Len(resp[1].result) > 1 => resp[1].result[1] # "0")

\* A request answered 200 with a two-character result.
C8_Witness ==
    /\ hpc = "finished"
    /\ paramA = <<"1", "0">> /\ paramB = <<"0">>
    /\ resp = <<[status |-> StatusOK, result |-> <<"1", "0">>]>>

====
